---- MODULE Spec2Model ----
(***************************************************************************)
(* Frame loop, presentation synchronisation and swapchain rebuild of the   *)
(* vkLearn chapters.  Three chapters are modelled, chosen in Init:         *)
(*   "triangle"  source/vk_triangle/HelloTriangle.cpp                      *)
(*   "buffers"   unnamed/part_004 (Application) on top of                  *)
(*               source/vk_buffers/VulkanUtils.cpp and unnamed/part_003    *)
(*   "depth"     source/vk_depth_buffering/main.cpp                        *)
(* The CPU thread is a call stack of frames; the GPU queue and the window  *)
(* system are the environment.                                             *)
(***************************************************************************)
EXTENDS Integers, Sequences, FiniteSets, TLC

(* ---------------------------- bounds ----------------------------------- *)
\* window events (resize, expose, close) the window system delivers in a run
MaxEvents == 2
\* acquire results that report a stale chain (out of date, suboptimal) in a run
MaxStale == 1

\* longest list of surface formats or present modes given to a chooser
MaxListLen == 3

(* ------------------------ program constants ---------------------------- *)
maxFramesInFlight == 2

\* std::numeric_limits<std::uint32_t>::max() and <std::uint64_t>::max(), the
\* largest values of 32 and of 64 bits: 2^64 - 1 is beyond the integers of
\* the checker, so each is kept as the number of its bits, all of them ones
uint32Max == 32
uint64Max == 64
\* the timeouts drawFrame passes, in nanoseconds
fenceTimeout == uint64Max
acquireTimeout == uint32Max
\* 2^32 - 1 ns are 4.29 seconds; 2^64 - 1 ns are more than five centuries
expiresInSeconds(timeout) == timeout <= uint32Max

Chapters == {"triangle", "buffers", "depth"}
Slots == 0 .. (maxFramesInFlight - 1)
\* a null handle (a released vk::Unique handle, an empty optional)
NoObj == [null |-> TRUE]
\* std::numeric_limits<std::uint32_t>::max(), the "undefined" current extent
\* (the bit pattern 0xFFFFFFFF, written as the 32-bit integer it is)
UndefinedExtent == -1

Extent(w, h) == [width |-> w, height |-> h]
\* framebuffer sizes the window takes: zero width, zero height, two real sizes
WinSizes == {Extent(0, 1), Extent(1, 0), Extent(1, 1), Extent(2, 1)}
InitialWindow == Extent(2, 1)

\* what the surface reports; the image counts and extent limits do not change.
\* Two surfaces are modelled: one that reports a current extent and bounds the
\* image count, one that reports no current extent and leaves it unbounded
SurfaceFormats == << [format |-> "R8G8B8A8Unorm", colorSpace |-> "SrgbNonlinear"],
                     [format |-> "B8G8R8A8Unorm", colorSpace |-> "SrgbNonlinear"] >>
SurfaceLimits(defined) ==
    [minImageCount |-> IF defined THEN 1 ELSE 2,
     maxImageCount |-> IF defined THEN 2 ELSE 0,
     minImageExtent |-> Extent(1, 1),
     maxImageExtent |-> Extent(2, 2)]

VARIABLES
    chapter,            \* which chapter executable runs
    extentDefined,      \* platform: does the surface report a current extent
    stack,              \* CPU call stack, innermost frame last
    exit,               \* "running", "closed" (run returned), "error" (exception left run)
    thrownBy,           \* the call that threw, "none" while running
    mCurrentFrame,
    mFramebufferResized,
    inFlightFences,     \* slot -> "signaled" | "unsignaled"
    imageAvailable,     \* slot -> "signaled" | "unsignaled"
    renderFinished,     \* slot -> "unsignaled" | "pending" (a submission in the
                        \* queue will signal it) | "signaled"
    queue,              \* graphics queue: submissions not yet executed
    swapchain,          \* the chain state and its dependent render target set
    window,             \* framebuffer size of the window
    shouldClose,        \* glfwWindowShouldClose
    events,             \* window events not yet dispatched
    budget,             \* remaining environment choices
    unobserved,         \* slot -> submissions whose fence the CPU has not seen signaled
    call,               \* a chooser called on its own: the function and its arguments
    returned            \* what that call returned, once it has

vars == << chapter, extentDefined, stack, exit, thrownBy, mCurrentFrame,
           mFramebufferResized, inFlightFences, imageAvailable, renderFinished,
           queue, swapchain, window, shouldClose, events, budget, unobserved,
           call, returned >>

(* ------------------------- pure functions ------------------------------ *)
Min(a, b) == IF a < b THEN a ELSE b
Max(a, b) == IF a > b THEN a ELSE b

\* a preference that looks at the format and not at the colour space
IsPreferredFormatOnly(f) == f.format = "B8G8R8A8Unorm"
IsPreferredFormat(f) ==
    f.format = "B8G8R8A8Unorm" /\ f.colorSpace = "SrgbNonlinear"

RECURSIVE FirstPreferred(_, _)
FirstPreferred(formats, i) ==
    IF i > Len(formats) THEN 0
    ELSE IF IsPreferredFormat(formats[i]) THEN i
    ELSE FirstPreferred(formats, i + 1)

chooseSwapSurfaceFormat(formats) ==
    IF FirstPreferred(formats, 1) # 0
    THEN formats[FirstPreferred(formats, 1)]
    ELSE formats[1]

\* an extent that takes the window size as it is
chooseWindowExtent(capabilities, win) ==
    IF capabilities.currentExtent.width # UndefinedExtent
    THEN capabilities.currentExtent
    ELSE win
chooseSwapExtent(capabilities, win) ==
    IF capabilities.currentExtent.width # UndefinedExtent
    THEN capabilities.currentExtent
    ELSE Extent(Max(capabilities.minImageExtent.width,
                    Min(capabilities.maxImageExtent.width, win.width)),
                Max(capabilities.minImageExtent.height,
                    Min(capabilities.maxImageExtent.height, win.height)))

\* a chooser that takes mailbox only from the head of the list
chooseMailboxIfFirst(presentModes) ==
    IF presentModes # << >> /\ presentModes[1] = "Mailbox" THEN "Mailbox"
    ELSE "Fifo"
\* a chooser that falls back to the first mode of the list
chooseFirstPresentMode(presentModes) ==
    IF \E i \in 1 .. Len(presentModes) : presentModes[i] = "Mailbox"
    THEN "Mailbox"
    ELSE IF presentModes # << >> THEN presentModes[1] ELSE "Fifo"
RECURSIVE FirstMailbox(_, _)
FirstMailbox(presentModes, i) ==
    IF i > Len(presentModes) THEN 0
    ELSE IF presentModes[i] = "Mailbox" THEN i
    ELSE FirstMailbox(presentModes, i + 1)
chooseSwapPresentMode(presentModes) ==
    IF FirstMailbox(presentModes, 1) # 0
    THEN presentModes[FirstMailbox(presentModes, 1)]
    ELSE "Fifo"

\* an image count that takes a maximum of zero for a bound
imageCountBoundedByZero(capabilities) ==
    Min(capabilities.minImageCount + 1, capabilities.maxImageCount)
imageCount(capabilities) ==
    IF capabilities.maxImageCount > 0 /\
       capabilities.minImageCount + 1 > capabilities.maxImageCount
    THEN capabilities.maxImageCount
    ELSE capabilities.minImageCount + 1

\* pickPhysicalDevice: suitable[i] is isDeviceSuitable of the i-th enumerated
\* device; a device is its place in the list, and 0 is the null handle that
\* mPhysicalDevice holds before the call (and that vkutils returns as {})
RECURSIVE PickFrom(_, _, _)
PickFrom(suitable, i, mPhysicalDevice) ==
    IF i > Len(suitable) THEN [threw |-> FALSE, device |-> mPhysicalDevice]
    ELSE IF suitable[i] THEN [threw |-> FALSE, device |-> i]
    ELSE IF mPhysicalDevice # 0 THEN [threw |-> TRUE, device |-> mPhysicalDevice]
    ELSE PickFrom(suitable, i + 1, mPhysicalDevice)
pickPhysicalDevice(suitable) ==
    IF suitable = << >> THEN [threw |-> TRUE, device |-> 0]
    ELSE PickFrom(suitable, 1, 0)

\* vkGetPhysicalDeviceSurfaceCapabilitiesKHR / ...FormatsKHR at this moment
querySwapchainSupport(win, defined) ==
    [capabilities |->
        [currentExtent  |-> IF defined THEN win
                            ELSE Extent(UndefinedExtent, UndefinedExtent),
         minImageExtent |-> SurfaceLimits(defined).minImageExtent,
         maxImageExtent |-> SurfaceLimits(defined).maxImageExtent,
         minImageCount  |-> SurfaceLimits(defined).minImageCount,
         maxImageCount  |-> SurfaceLimits(defined).maxImageCount],
     formats |-> SurfaceFormats]


(* ---------------------- the chain and its dependents ------------------- *)
\* HelloTriangleApplication::createSwapChain: one query, and the format and
\* extent given to the chain are the ones recorded in the members
createSwapChain(s, win, defined) ==
    LET details == querySwapchainSupport(win, defined)
        surfaceFormat == chooseSwapSurfaceFormat(details.formats)
        extent == chooseSwapExtent(details.capabilities, win)
    IN  [s EXCEPT !.chain  = [format |-> surfaceFormat.format,
                              extent |-> extent,
                              images |-> imageCount(details.capabilities)],
                  !.format = surfaceFormat.format,
                  !.extent = extent]

\* vkutils::createSwapchainKHR: queries the surface itself and returns the chain
createSwapchainKHR(win, defined) ==
    LET swapchainDetails == querySwapchainSupport(win, defined)
        surfaceFormat == chooseSwapSurfaceFormat(swapchainDetails.formats)
        extent == chooseSwapExtent(swapchainDetails.capabilities, win)
    IN  [format |-> surfaceFormat.format,
         extent |-> extent,
         images |-> imageCount(swapchainDetails.capabilities)]

\* vkutils::recreateSwapchain, s.format and s.extent: chosen again from the
\* details queried before the chain was created, and the window as it is now
recordFormatExtent(s, swapchainDetails, win) ==
    [s EXCEPT !.format = chooseSwapSurfaceFormat(swapchainDetails.formats).format,
              !.extent = chooseSwapExtent(swapchainDetails.capabilities, win)]

createImageViews(s) ==
    [s EXCEPT !.imageViews = [count |-> s.chain.images, format |-> s.format]]
createRenderPass(s) ==
    [s EXCEPT !.renderPass = [format |-> s.format]]
createGraphicsPipeline(s) ==
    [s EXCEPT !.pipeline = [extent |-> s.extent]]
\* a build that makes a single framebuffer whatever the number of views
createSingleFramebuffer(s) ==
    [s EXCEPT !.framebuffers = [count |-> 1, extent |-> s.extent]]
createFramebuffers(s) ==
    [s EXCEPT !.framebuffers = [count |-> s.imageViews.count, extent |-> s.extent]]
createCommandBuffers(s) ==
    [s EXCEPT !.commandBuffers = [count |-> s.framebuffers.count,
                                  extent |-> s.extent]]
\* initVulkan only: the pool the command buffers are allocated from
createCommandPool(s) ==
    [s EXCEPT !.commandPool = [pool |-> "command"]]
\* a rebuild that leaves the descriptor pool as it finds it
createNoDescriptorPool(s) == s
\* vk_depth_buffering: sized by the number of chain images
createDescriptorPool(s) ==
    [s EXCEPT !.descriptorPool = [pool |-> "descriptor",
                                  maxSets |-> s.chain.images]]

\* the chapter that has uniform buffers and descriptor sets, and a pool for them
hasDescriptorPool(ch) == ch = "depth"
\* drawFrame calls updateUniformBuffer(imageIndex) before it submits
hasUniformBuffers(ch) == ch = "depth"

\* the build steps that follow the creation of the chain, in call order
DependentSteps(ch) ==
    << "createImageViews", "createRenderPass", "createGraphicsPipeline",
       "createFramebuffers" >>
    \o (IF hasDescriptorPool(ch) THEN << "createDescriptorPool" >> ELSE << >>)
    \o << "createCommandBuffers" >>

ApplyStep(name, s) ==
    CASE name = "createImageViews"       -> createImageViews(s)
      [] name = "createRenderPass"       -> createRenderPass(s)
      [] name = "createGraphicsPipeline" -> createGraphicsPipeline(s)
      [] name = "createFramebuffers"     -> createFramebuffers(s)
      [] name = "createDescriptorPool"   -> createDescriptorPool(s)
      [] name = "createCommandBuffers"   -> createCommandBuffers(s)

\* the first n dependent steps of chapter ch applied to s
RECURSIVE BuildDependents(_, _, _)
BuildDependents(s, ch, n) ==
    IF n = 0 THEN s
    ELSE ApplyStep(DependentSteps(ch)[n], BuildDependents(s, ch, n - 1))

\* a destruction that destroys nothing
destroyNothing(s, member) == s
\* destroy...() and release() / clear(): the member holds a null handle
destroy(s, member) == [s EXCEPT ![member] = NoObj]

\* a cleanup that frees the command buffers before the framebuffers
cleanupCommandBuffersFirst(ch) ==
    << "commandBuffers", "framebuffers", "pipeline", "renderPass",
       "imageViews", "chain" >>
    \o (IF hasDescriptorPool(ch) THEN << "descriptorPool" >> ELSE << >>)
\* cleanupSwapChain: the members it destroys, in the order it destroys them;
\* the recorded format and extent are plain values and keep what they held
cleanupSwapChain(ch) ==
    << "framebuffers", "commandBuffers", "pipeline", "renderPass",
       "imageViews", "chain" >>
    \o (IF hasDescriptorPool(ch) THEN << "descriptorPool" >> ELSE << >>)

EmptySwapchain ==
    [chain |-> NoObj, format |-> NoObj, extent |-> NoObj, imageViews |-> NoObj,
     renderPass |-> NoObj, pipeline |-> NoObj, framebuffers |-> NoObj,
     commandBuffers |-> NoObj, commandPool |-> NoObj, descriptorPool |-> NoObj]

\* initVulkan: the first build, against the window as created
InitialSwapchain(ch, defined) ==
    BuildDependents(createSwapChain(createCommandPool(EmptySwapchain),
                                    InitialWindow, defined),
                    ch, Len(DependentSteps(ch)))

\* vkCreateSwapchainKHR rejects an image extent with a zero dimension
ValidExtent(e) == e.width # 0 /\ e.height # 0

(* --------------------------- sync objects ------------------------------ *)
\* a fence created without the signaled bit
createFenceUnsignaled == "unsignaled"
\* createSyncObjects: vk::FenceCreateFlagBits::eSignaled
createFence == "signaled"
createSemaphore == "unsignaled"

(* ----------------------------- call stack ------------------------------ *)
Top == stack[Len(stack)]
Running == exit = "running" /\ stack # << >>
Replace(f) == [stack EXCEPT ![Len(stack)] = f]
Call(f, callee) == Append(Replace(f), callee)
Return == SubSeq(stack, 1, Len(stack) - 1)
In(fn, pc) == Running /\ Top.fn = fn /\ Top.pc = pc

MainFrame == [fn |-> "mainLoop", pc |-> "loop"]
DrawFrame ==
    [fn |-> "drawFrame", pc |-> "waitForFences", result |-> "none", image |-> 0,
     rebuilds |-> 0, resets |-> 0, submits |-> 0]
RecreateFrame ==
    [fn |-> "recreateSwapChain", pc |-> "loop", width |-> 0, height |-> 0,
     destroyed |-> 0, details |-> NoObj, before |-> NoObj]
EventsFrame(fn) == [fn |-> fn, pc |-> "dispatch", handled |-> FALSE]
RedrawFrame == [fn |-> "redrawWindow", pc |-> "draw", calls |-> 2]

Throw(by) ==
    /\ stack' = << >>
    /\ exit' = "error"
    /\ thrownBy' = by

\* no chooser is called on its own while the frame loop runs
NoCall == [fn |-> "none"]
Pending == [done |-> FALSE]
Returned(value) == [done |-> TRUE, value |-> value]

(* ------------------------------- Init ---------------------------------- *)
Init ==
    /\ chapter \in Chapters
    /\ extentDefined \in BOOLEAN
    /\ stack = << MainFrame >>
    /\ exit = "running"
    /\ thrownBy = "none"
    /\ mCurrentFrame = 0
    /\ mFramebufferResized = FALSE
    /\ inFlightFences = [i \in Slots |-> createFence]
    /\ imageAvailable = [i \in Slots |-> createSemaphore]
    /\ renderFinished = [i \in Slots |-> createSemaphore]
    /\ queue = << >>
    /\ swapchain = InitialSwapchain(chapter, extentDefined)
    /\ window = InitialWindow
    /\ shouldClose = FALSE
    /\ events = << >>
    /\ budget = [events |-> MaxEvents, stale |-> MaxStale]
    /\ unobserved = [i \in Slots |-> 0]
    /\ call = NoCall
    /\ returned = Pending


platform == << chapter, extentDefined, call, returned >>
sync == << inFlightFences, imageAvailable, renderFinished, queue, unobserved >>
windowing == << window, events, budget, shouldClose >>
ending == << exit, thrownBy >>

\* the chapter whose rebuild is vkutils::recreateSwapchain
usesVkutils(ch) == ch = "buffers"

\* main: the exit code of the executable once run has returned ("closed") or an
\* exception has left it ("error").  vk_triangle and vk_depth_buffering return
\* 1 from the catch block; vk_buffers prints the message and falls through to
\* the final return 0
main(ch, outcome) ==
    IF outcome = "error" /\ ~usesVkutils(ch) THEN 1 ELSE 0

\* a wait for the device that returns at once
deviceIdleAtOnce(q) == TRUE
\* waitIdle() returns when everything submitted has been executed
deviceIdle(q) == q = << >>

(* ------------------------------ mainLoop ------------------------------- *)
\* while (!glfwWindowShouldClose(mWindow)) { drawFrame(); ...
MainLoop ==
    /\ In("mainLoop", "loop")
    /\ stack' = IF shouldClose
                THEN Replace([Top EXCEPT !.pc = "waitIdle"])
                ELSE Call([Top EXCEPT !.pc = "poll"], DrawFrame)
    /\ UNCHANGED << platform, sync, windowing, ending, mCurrentFrame,
                    mFramebufferResized, swapchain >>

\* ... glfwPollEvents(); }
MainPollEvents ==
    /\ In("mainLoop", "poll")
    /\ stack' = Call([Top EXCEPT !.pc = "loop"], EventsFrame("glfwPollEvents"))
    /\ UNCHANGED << platform, sync, windowing, ending, mCurrentFrame,
                    mFramebufferResized, swapchain >>

\* mDevice->waitIdle(); then run() returns
MainWaitIdle ==
    /\ In("mainLoop", "waitIdle")
    /\ deviceIdle(queue)
    /\ stack' = << >>
    /\ exit' = "closed"
    /\ UNCHANGED << platform, sync, windowing, thrownBy, mCurrentFrame,
                    mFramebufferResized, swapchain >>

(* ------------------------------ drawFrame ------------------------------ *)
\* what acquireNextImageKHR can return: eTimeout when no image became
\* available before a timeout that expires
acquireResults(timeout) ==
    {"Success", "SuboptimalKHR", "ErrorOutOfDateKHR", "ErrorDeviceLost"}
        \cup (IF expiresInSeconds(timeout) THEN {"Timeout"} ELSE {})
AcquireResults == acquireResults(acquireTimeout)
\* what presentKHR can return
PresentResults == {"Success", "ErrorOutOfDateKHR", "ErrorDeviceLost"}
StaleResults == {"SuboptimalKHR", "ErrorOutOfDateKHR"}
\* vkAcquireNextImageKHR hands out an image, and signals the semaphore, on
\* success and on suboptimal
SignalsSemaphore(result) == result \in {"Success", "SuboptimalKHR"}

\* a wait that returns whatever the fence holds
FenceIgnored(fence) == TRUE
\* waitForFences returns once the fence is signaled
FenceReady(fence) == fence = "signaled"

\* a first branch that does not look at the resize flag
needsRecreateByResultOnly(result, resized) ==
    result = "ErrorOutOfDateKHR" \/ result = "SuboptimalKHR"
\* the first branch of drawFrame
needsRecreate(result, resized) ==
    result = "ErrorOutOfDateKHR" \/ result = "SuboptimalKHR" \/ resized

\* an inner branch that never recreates the semaphore
neverNewSemaphore(result, resized) == FALSE
\* the inner branch: the image-available semaphore is destroyed and recreated
needsNewSemaphore(result, resized) ==
    resized /\ result = "Success"

\* a second branch that throws on a lost device only
acquireFailedOnDeviceLost(result) == result = "ErrorDeviceLost"
\* else if (result.result != vk::Result::eSuccess) throw
acquireFailed(result) == result # "Success"

\* mCurrentFrame = (mCurrentFrame + 1) % maxFramesInFlight
nextFrame(current) == (current + 1) % maxFramesInFlight

WaitForFences ==
    /\ In("drawFrame", "waitForFences")
    /\ FenceReady(inFlightFences[mCurrentFrame])
    /\ stack' = Replace([Top EXCEPT !.pc = "acquire"])
    /\ unobserved' =
         IF inFlightFences[mCurrentFrame] = "signaled"
         THEN [unobserved EXCEPT ![mCurrentFrame] = 0]
         ELSE unobserved
    /\ UNCHANGED << platform, inFlightFences, imageAvailable, renderFinished,
                    queue, windowing, ending, mCurrentFrame, mFramebufferResized,
                    swapchain >>

\* acquireNextImageKHR: the result, the image index, and the semaphore
\* signaled when an image is handed out
AcquireNextImage ==
    /\ In("drawFrame", "acquire")
    /\ \E result \in AcquireResults :
       \E image \in 0 .. (swapchain.chain.images - 1) :
         /\ result \in StaleResults => budget.stale > 0
         /\ ~SignalsSemaphore(result) => image = 0
         /\ budget' = IF result \in StaleResults
                      THEN [budget EXCEPT !.stale = @ - 1]
                      ELSE budget
         /\ imageAvailable' =
              IF SignalsSemaphore(result)
              THEN [imageAvailable EXCEPT ![mCurrentFrame] = "signaled"]
              ELSE imageAvailable
         /\ stack' = Replace([Top EXCEPT !.pc = "branch", !.result = result,
                                         !.image = image])
    /\ UNCHANGED << platform, inFlightFences, renderFinished, queue, unobserved,
                    window, events, shouldClose, ending, mCurrentFrame,
                    mFramebufferResized, swapchain >>

\* the branches on the result, up to the call of recreateSwapChain, the throw,
\* or the fall through to the submission
Branch ==
    /\ In("drawFrame", "branch")
    /\ LET result  == Top.result
           resized == mFramebufferResized
       IN
       IF needsRecreate(result, resized)
       THEN /\ imageAvailable' =
                 IF needsNewSemaphore(result, resized)
                 THEN [imageAvailable EXCEPT ![mCurrentFrame] = createSemaphore]
                 ELSE imageAvailable
            /\ mFramebufferResized' = FALSE
            /\ stack' = Call([Top EXCEPT
                                 !.pc = "return", !.result = "none", !.image = 0,
                                 !.rebuilds = @ + 1],
                             RecreateFrame)
            /\ UNCHANGED ending
       ELSE IF acquireFailed(result)
       THEN /\ Throw("acquireNextImageKHR")
            /\ UNCHANGED << imageAvailable, mFramebufferResized >>
       ELSE /\ stack' = Replace([Top EXCEPT !.pc = "submit"])
            /\ UNCHANGED << ending, imageAvailable, mFramebufferResized >>
    /\ UNCHANGED << platform, inFlightFences, renderFinished, queue, unobserved,
                    windowing, mCurrentFrame, swapchain >>

\* resetFences, then mGraphicsQueue.submit with the slot's fence; the
\* submission waits on the slot's image-available semaphore and is given the
\* slot's render-finished semaphore to signal
Submit ==
    /\ In("drawFrame", "submit")
    /\ inFlightFences' = [inFlightFences EXCEPT ![mCurrentFrame] = "unsignaled"]
    /\ queue' = Append(queue, [slot |-> mCurrentFrame, image |-> Top.image])
    /\ unobserved' = [unobserved EXCEPT ![mCurrentFrame] = @ + 1]
    /\ renderFinished' = [renderFinished EXCEPT ![mCurrentFrame] = "pending"]
    /\ stack' = Replace([Top EXCEPT !.pc = "present", !.resets = @ + 1,
                                    !.submits = @ + 1])
    /\ UNCHANGED << platform, imageAvailable, windowing, ending, mCurrentFrame,
                    mFramebufferResized, swapchain >>

\* mPresentQueue.presentKHR(presentInfo): it returns a result; the image index
\* is not read again
Present ==
    /\ In("drawFrame", "present")
    /\ \E result \in PresentResults :
         stack' = Replace([Top EXCEPT !.pc = "advance", !.result = result,
                                         !.image = 0])
    /\ UNCHANGED << platform, sync, windowing, ending, mCurrentFrame,
                    mFramebufferResized, swapchain >>

\* the value presentKHR returned is discarded: no branch of drawFrame reads it
presentFailed(result) == FALSE

\* the statement after the present: the frame index advances, drawFrame returns
Advance ==
    /\ In("drawFrame", "advance")
    /\ IF presentFailed(Top.result)
       THEN /\ Throw("presentKHR")
            /\ UNCHANGED mCurrentFrame
       ELSE /\ mCurrentFrame' = nextFrame(mCurrentFrame)
            /\ stack' = Return
            /\ UNCHANGED ending
    /\ UNCHANGED << platform, sync, windowing, mFramebufferResized, swapchain >>

(* -------------------------------- GPU ---------------------------------- *)
\* the graphics queue executes its oldest submission: it waits on the slot's
\* image-available semaphore and signals the slot's render-finished semaphore
\* and the slot's fence
GpuExecute ==
    /\ queue # << >>
    /\ imageAvailable[Head(queue).slot] = "signaled"
    /\ imageAvailable' = [imageAvailable EXCEPT ![Head(queue).slot] = "unsignaled"]
    /\ inFlightFences' = [inFlightFences EXCEPT ![Head(queue).slot] = "signaled"]
    /\ renderFinished' = [renderFinished EXCEPT ![Head(queue).slot] = "signaled"]
    /\ queue' = Tail(queue)
    /\ UNCHANGED << platform, stack, windowing, ending, mCurrentFrame,
                    mFramebufferResized, swapchain, unobserved >>

\* the present queue performs the wait of a present that drawFrame queued
\* on a slot's render-finished semaphore: the signal is consumed.  Nothing
\* makes the CPU wait for this, and the CPU meets the semaphore again only
\* when it hands it to the slot's next submission, so the move is taken
\* there: a wait performed earlier is the same wait performed at that point.
PresentExecute ==
    /\ In("drawFrame", "submit")
    /\ renderFinished[mCurrentFrame] = "signaled"
    /\ renderFinished' = [renderFinished EXCEPT ![mCurrentFrame] = "unsignaled"]
    /\ UNCHANGED << platform, stack, inFlightFences, imageAvailable, queue,
                    unobserved, windowing, ending, mCurrentFrame,
                    mFramebufferResized, swapchain >>


(* ------------------- glfwPollEvents / glfwWaitEvents ------------------- *)
InEvents == Running /\ Top.fn \in {"glfwPollEvents", "glfwWaitEvents"}
Handled == [Top EXCEPT !.handled = TRUE]

\* a callback that drops the notification
framebuffeResizedLost == FALSE
\* framebuffeResized(): mFramebufferResized = true
framebuffeResized == TRUE

\* onFramebufferResize -> framebuffeResized()
OnFramebufferResize ==
    /\ InEvents
    /\ events # << >> /\ Head(events) = "resize"
    /\ events' = Tail(events)
    /\ mFramebufferResized' = framebuffeResized
    /\ stack' = Replace(Handled)
    /\ UNCHANGED << platform, sync, window, budget, shouldClose, ending,
                    mCurrentFrame, swapchain >>

\* the chapters that call glfwSetWindowRefreshCallback
hasRefreshCallback(ch) == ch # "triangle"

\* onWindowRedraw -> redrawWindow(): if (mFramebufferResized) two drawFrame calls
OnWindowRedraw ==
    /\ InEvents
    /\ events # << >> /\ Head(events) = "refresh"
    /\ events' = Tail(events)
    /\ stack' = IF hasRefreshCallback(chapter) /\ mFramebufferResized
                THEN Call(Handled, RedrawFrame)
                ELSE Replace(Handled)
    /\ UNCHANGED << platform, sync, window, budget, shouldClose, ending,
                    mCurrentFrame, mFramebufferResized, swapchain >>

\* a close request sets the window's should-close flag
OnWindowClose ==
    /\ InEvents
    /\ events # << >> /\ Head(events) = "close"
    /\ events' = Tail(events)
    /\ shouldClose' = TRUE
    /\ stack' = Replace(Handled)
    /\ UNCHANGED << platform, sync, window, budget, ending, mCurrentFrame,
                    mFramebufferResized, swapchain >>

\* glfwPollEvents returns when no event is pending; glfwWaitEvents returns
\* when it has handled at least one event and none is pending
EventsReturn ==
    /\ InEvents
    /\ events = << >>
    /\ Top.fn = "glfwPollEvents" \/ Top.handled
    /\ stack' = Return
    /\ UNCHANGED << platform, sync, windowing, ending, mCurrentFrame,
                    mFramebufferResized, swapchain >>

\* redrawWindow: drawFrame(); drawFrame(); and return
RedrawWindow ==
    /\ Running /\ Top.fn = "redrawWindow"
    /\ stack' = IF Top.calls > 0
                THEN Call([Top EXCEPT !.calls = @ - 1], DrawFrame)
                ELSE Return
    /\ UNCHANGED << platform, sync, windowing, ending, mCurrentFrame,
                    mFramebufferResized, swapchain >>

(* -------------------------- recreateSwapChain -------------------------- *)
\* a loop condition that needs both dimensions to be zero
sizeIsZeroInBoth(width, height) == width = 0 /\ height = 0
\* while (width == 0 || height == 0)
sizeIsZero(width, height) == width = 0 \/ height = 0

\* glfwGetFramebufferSize(...); glfwWaitEvents();
RecreateGetSize ==
    /\ In("recreateSwapChain", "loop")
    /\ sizeIsZero(Top.width, Top.height)
    /\ stack' = Call([Top EXCEPT !.width = window.width,
                                 !.height = window.height],
                     EventsFrame("glfwWaitEvents"))
    /\ UNCHANGED << platform, sync, windowing, ending, mCurrentFrame,
                    mFramebufferResized, swapchain >>

\* the loop ends and waitIdle is called
RecreateLoopExit ==
    /\ In("recreateSwapChain", "loop")
    /\ ~sizeIsZero(Top.width, Top.height)
    /\ stack' = Replace([Top EXCEPT !.pc = "waitIdle"])
    /\ UNCHANGED << platform, sync, windowing, ending, mCurrentFrame,
                    mFramebufferResized, swapchain >>

\* mDevice->waitIdle() returns when the queue has drained
RecreateWaitIdle ==
    /\ In("recreateSwapChain", "waitIdle")
    /\ deviceIdle(queue)
    /\ stack' = Replace([Top EXCEPT !.pc = "cleanup", !.before = swapchain])
    /\ UNCHANGED << platform, sync, windowing, ending, mCurrentFrame,
                    mFramebufferResized, swapchain >>

\* cleanupSwapChain(): one destruction after the other, then the build
RecreateCleanup ==
    /\ In("recreateSwapChain", "cleanup")
    /\ LET order == cleanupSwapChain(chapter)
           n == Top.destroyed + 1
       IN  /\ swapchain' = destroy(swapchain, order[n])
           /\ stack' = Replace(
                 IF n < Len(order)
                 THEN [Top EXCEPT !.destroyed = n]
                 ELSE [Top EXCEPT !.destroyed = 0,
                                  !.pc = IF usesVkutils(chapter)
                                         THEN "query" ELSE "create"])
    /\ UNCHANGED << platform, sync, windowing, ending, mCurrentFrame,
                    mFramebufferResized >>

\* recreateSwapChain returns and drawFrame returns right after it
ReturnFromRecreate ==
    /\ stack' = SubSeq(stack, 1, Len(stack) - 2)
    /\ UNCHANGED ending

\* the dependent steps on s: all of them (failAt = 0), or the first failAt - 1
\* of them and then an exception out of step failAt
BuildOrThrow(s, failAt) ==
    IF failAt = 0
    THEN /\ swapchain' = BuildDependents(s, chapter, Len(DependentSteps(chapter)))
         /\ ReturnFromRecreate
    ELSE /\ swapchain' = BuildDependents(s, chapter, failAt - 1)
         /\ Throw(DependentSteps(chapter)[failAt])

\* createSwapChain(); createImageViews(); ... createCommandBuffers();
RecreateBuild ==
    /\ In("recreateSwapChain", "create")
    /\ \E ok \in BOOLEAN, failAt \in 0 .. Len(DependentSteps(chapter)) :
         LET s == createSwapChain(swapchain, window, extentDefined) IN
         IF ok /\ ValidExtent(s.chain.extent)
         THEN BuildOrThrow(s, failAt)
         ELSE /\ failAt = 0
              /\ Throw("createSwapChain")
              /\ UNCHANGED swapchain
    /\ UNCHANGED << platform, sync, windowing, mCurrentFrame,
                    mFramebufferResized >>

\* vkutils::recreateSwapchain: auto swapchainDetails = querySwapchainSupport(..)
VkutilsQuery ==
    /\ In("recreateSwapChain", "query")
    /\ stack' = Replace([Top EXCEPT
                    !.pc = "createSwapchainKHR",
                    !.details = querySwapchainSupport(window, extentDefined)])
    /\ UNCHANGED << platform, sync, windowing, ending, mCurrentFrame,
                    mFramebufferResized, swapchain >>

\* s.chain = createSwapchainKHR(physicalDevice, surface, device, window)
VkutilsCreateChain ==
    /\ In("recreateSwapChain", "createSwapchainKHR")
    /\ \E ok \in BOOLEAN :
         LET chain == createSwapchainKHR(window, extentDefined) IN
         IF ok /\ ValidExtent(chain.extent)
         THEN /\ swapchain' = [swapchain EXCEPT !.chain = chain]
              /\ stack' = Replace([Top EXCEPT !.pc = "build"])
              /\ UNCHANGED ending
         ELSE /\ Throw("createSwapchainKHR")
              /\ UNCHANGED swapchain
    /\ UNCHANGED << platform, sync, windowing, mCurrentFrame,
                    mFramebufferResized >>

\* s.format, s.extent, then the image views .. the command buffers
VkutilsBuild ==
    /\ In("recreateSwapChain", "build")
    /\ \E failAt \in 0 .. Len(DependentSteps(chapter)) :
         BuildOrThrow(recordFormatExtent(swapchain, Top.details, window), failAt)
    /\ UNCHANGED << platform, sync, windowing, mCurrentFrame,
                    mFramebufferResized >>

(* --------------------------- window system ----------------------------- *)
\* The CPU sees the window only through the calls that read its size or
\* dispatch its events, so the window's moves are taken when the CPU is at
\* such a call: a move made earlier is the same move made there.  Events are
\* handed over one at a time (a damaged resize as a pair): one that arrives
\* while others wait is the same event arriving once they are dispatched.
ObservesWindow ==
    \/ InEvents
    \/ Running /\ Top.fn = "recreateSwapChain"
               /\ Top.pc \in {"loop", "create", "query", "createSwapchainKHR", "build"}

CanDeliver == ObservesWindow /\ budget.events > 0 /\ events = << >>

\* the window takes a new size: a framebuffer-size event, and a refresh event
\* when the resize damaged the window's contents
WindowResize ==
    /\ CanDeliver
    /\ \E size \in WinSizes \ {window} : window' = size
    /\ \E damaged \in BOOLEAN :
         events' = IF damaged THEN events \o << "resize", "refresh" >>
                   ELSE Append(events, "resize")
    /\ budget' = [budget EXCEPT !.events = @ - 1]
    /\ UNCHANGED << platform, stack, sync, shouldClose, ending, mCurrentFrame,
                    mFramebufferResized, swapchain >>

WindowExpose ==
    /\ CanDeliver
    /\ events' = Append(events, "refresh")
    /\ budget' = [budget EXCEPT !.events = @ - 1]
    /\ UNCHANGED << platform, stack, sync, window, shouldClose, ending,
                    mCurrentFrame, mFramebufferResized, swapchain >>

WindowClose ==
    /\ CanDeliver
    /\ ~shouldClose
    /\ events' = Append(events, "close")
    /\ budget' = [budget EXCEPT !.events = @ - 1]
    /\ UNCHANGED << platform, stack, sync, window, shouldClose, ending,
                    mCurrentFrame, mFramebufferResized, swapchain >>

(* ------------------------------ the system ----------------------------- *)
Cpu ==
    \/ MainLoop
    \/ MainPollEvents
    \/ MainWaitIdle
    \/ WaitForFences
    \/ AcquireNextImage
    \/ Branch
    \/ Submit
    \/ Present
    \/ Advance
    \/ OnFramebufferResize
    \/ OnWindowRedraw
    \/ OnWindowClose
    \/ EventsReturn
    \/ RedrawWindow
    \/ RecreateGetSize
    \/ RecreateLoopExit
    \/ RecreateWaitIdle
    \/ RecreateCleanup
    \/ RecreateBuild
    \/ VkutilsQuery
    \/ VkutilsCreateChain
    \/ VkutilsBuild

Next ==
    \/ Cpu
    \/ GpuExecute
    \/ PresentExecute
    \/ WindowResize
    \/ WindowExpose
    \/ WindowClose

Spec == Init /\ [][Next]_vars


\* the GPU executes what is submitted, and a CPU whose fence is signaled goes on
FairSpec == Spec /\ WF_vars(GpuExecute) /\ WF_vars(WaitForFences)

(* ------------------- the choosers, called on their own ----------------- *)
\* The functions that choose the format, the present mode, the extent and
\* the image count of a chain, each applied once to arguments drawn from the
\* sets below.
ListsOf(S) == UNION {[1 .. n -> S] : n \in 1 .. MaxListLen}

FormatPool ==
    { [format |-> "B8G8R8A8Unorm", colorSpace |-> "SrgbNonlinear"],
      [format |-> "R8G8B8A8Unorm", colorSpace |-> "SrgbNonlinear"],
      [format |-> "B8G8R8A8Unorm", colorSpace |-> "ExtendedSrgbLinearEXT"] }
PresentModePool == {"Immediate", "Mailbox", "Fifo", "FifoRelaxed"}
Lengths == {0, 50, 100, 600, 3000, 4000, 5000}
ExtentLimits ==
    { [minImageExtent |-> Extent(100, 100), maxImageExtent |-> Extent(4000, 4000)],
      [minImageExtent |-> Extent(1, 1), maxImageExtent |-> Extent(600, 600)] }
CurrentExtents ==
    { Extent(UndefinedExtent, UndefinedExtent), Extent(600, 50), Extent(3000, 4000) }
ImageCounts ==
    { [minImageCount |-> lo, maxImageCount |-> hi] : lo \in 1 .. 3, hi \in 0 .. 4 }
\* a maximum of zero is no maximum; any other is at least the minimum
ValidImageCounts ==
    { c \in ImageCounts :
        c.maxImageCount = 0 \/ c.minImageCount <= c.maxImageCount }

ChooserCalls ==
    { [fn |-> "chooseSwapSurfaceFormat", formats |-> l] : l \in ListsOf(FormatPool) }
    \cup { [fn |-> "chooseSwapPresentMode", presentModes |-> l] :
              l \in ListsOf(PresentModePool) \cup {<< >>} }
    \cup { [fn |-> "chooseSwapExtent",
            capabilities |-> [currentExtent |-> c,
                              minImageExtent |-> l.minImageExtent,
                              maxImageExtent |-> l.maxImageExtent],
            window |-> Extent(w, h)] :
              c \in CurrentExtents, l \in ExtentLimits, w \in Lengths, h \in Lengths }
    \cup { [fn |-> "imageCount", capabilities |-> c] : c \in ValidImageCounts }
    \cup { [fn |-> "pickPhysicalDevice", suitable |-> l] :
              l \in ListsOf(BOOLEAN) \cup {<< >>} }

ChooserInit ==
    /\ chapter = "triangle"
    /\ extentDefined = TRUE
    /\ stack = << >>
    /\ exit = "closed"
    /\ thrownBy = "none"
    /\ mCurrentFrame = 0
    /\ mFramebufferResized = FALSE
    /\ inFlightFences = [i \in Slots |-> createFence]
    /\ imageAvailable = [i \in Slots |-> createSemaphore]
    /\ renderFinished = [i \in Slots |-> createSemaphore]
    /\ queue = << >>
    /\ swapchain = EmptySwapchain
    /\ window = InitialWindow
    /\ shouldClose = FALSE
    /\ events = << >>
    /\ budget = [events |-> 0, stale |-> 0]
    /\ unobserved = [i \in Slots |-> 0]
    /\ call \in ChooserCalls
    /\ returned = Pending

frameLoop ==
    << chapter, extentDefined, stack, exit, thrownBy, mCurrentFrame,
       mFramebufferResized, inFlightFences, imageAvailable, renderFinished,
       queue, swapchain, window, shouldClose, events, budget, unobserved >>

Calls(fn) == call.fn = fn /\ ~returned.done

ChooseSwapSurfaceFormat ==
    /\ Calls("chooseSwapSurfaceFormat")
    /\ returned' = Returned(chooseSwapSurfaceFormat(call.formats))
    /\ UNCHANGED << frameLoop, call >>

ChooseSwapPresentMode ==
    /\ Calls("chooseSwapPresentMode")
    /\ returned' = Returned(chooseSwapPresentMode(call.presentModes))
    /\ UNCHANGED << frameLoop, call >>

ChooseSwapExtent ==
    /\ Calls("chooseSwapExtent")
    /\ returned' = Returned(chooseSwapExtent(call.capabilities, call.window))
    /\ UNCHANGED << frameLoop, call >>

ImageCount ==
    /\ Calls("imageCount")
    /\ returned' = Returned(imageCount(call.capabilities))
    /\ UNCHANGED << frameLoop, call >>

\* initVulkan: pickPhysicalDevice(); createLogicalDevice() follows unless it threw
PickPhysicalDevice ==
    /\ Calls("pickPhysicalDevice")
    /\ returned' = Returned(pickPhysicalDevice(call.suitable))
    /\ UNCHANGED << frameLoop, call >>

ChooserNext ==
    \/ ChooseSwapSurfaceFormat
    \/ ChooseSwapPresentMode
    \/ ChooseSwapExtent
    \/ ImageCount
    \/ PickPhysicalDevice

ChooserSpec == ChooserInit /\ [][ChooserNext]_vars

(* ------------------------------ properties ----------------------------- *)
Frames == {stack[i] : i \in 1 .. Len(stack)}
CpuStep == stack' # stack
\* recreateSwapChain has just been called: it has read no size yet
RebuildInvoked ==
    /\ In("recreateSwapChain", "loop")
    /\ Top.width = 0 /\ Top.height = 0
RECURSIVE SumOver(_, _)
SumOver(f, S) ==
    IF S = {} THEN 0
    ELSE LET x == CHOOSE y \in S : TRUE IN f[x] + SumOver(f, S \ {x})

\* C1: the number of submitted frames whose fence the CPU has not observed
\* signaled since the submission never exceeds maxFramesInFlight.
C1_FramesInFlightBounded == SumOver(unobserved, Slots) <= maxFramesInFlight
\* every slot holds a submission the CPU has not yet observed complete
C1_Witness == \A i \in Slots : unobserved[i] = 1

\* C2: when acquire returned success with the resize flag set, the slot's
\* image-available semaphore, signaled by that acquire, has been destroyed
\* and recreated (it is a new, unsignaled one) at the moment
\* recreateSwapChain is invoked.
C2_RecreatedBeforeRebuild ==
    [][(In("drawFrame", "branch") /\ CpuStep
            /\ mFramebufferResized /\ Top.result = "Success") =>
          /\ imageAvailable[mCurrentFrame] = "signaled"
          /\ imageAvailable'[mCurrentFrame] = "unsignaled"
          /\ RebuildInvoked'
          /\ queue' = queue]_vars
\* acquire has returned success while the resize flag is set
C2_Witness ==
    In("drawFrame", "branch") /\ mFramebufferResized /\ Top.result = "Success"

\* C3: whenever acquire is called for a slot, the slot's image-available
\* semaphore holds no unconsumed signal of an earlier acquire.
C3_NoStaleSignalAtAcquire ==
    In("drawFrame", "acquire") => imageAvailable[mCurrentFrame] = "unsignaled"

\* the calls of a rebuild that build, in order, and the member each one sets
BuildCalls(ch) ==
    << IF usesVkutils(ch) THEN "createSwapchainKHR" ELSE "createSwapChain" >>
        \o DependentSteps(ch)
MemberOf(step) ==
    CASE step \in {"createSwapChain", "createSwapchainKHR"} -> "chain"
      [] step = "createImageViews"       -> "imageViews"
      [] step = "createRenderPass"       -> "renderPass"
      [] step = "createGraphicsPipeline" -> "pipeline"
      [] step = "createFramebuffers"     -> "framebuffers"
      [] step = "createDescriptorPool"   -> "descriptorPool"
      [] step = "createCommandBuffers"   -> "commandBuffers"
Building ==
    /\ Running /\ Top.fn = "recreateSwapChain"
    /\ Top.pc \in {"create", "createSwapchainKHR", "build"}

Rebuilding == \E f \in Frames : f.fn = "drawFrame" /\ f.pc = "return"

OtherResults == AcquireResults \ ({"Success"} \cup StaleResults)

\* C6 as stated: whatever the resize flag, a result other than success,
\* out-of-date or suboptimal is a fatal error.
C6_OtherResultAlwaysFatal ==
    [][(In("drawFrame", "branch") /\ CpuStep /\ Top.result \in OtherResults)
          => exit' = "error"]_vars

\* C6 amended: such a result is a fatal error when the resize flag is clear;
\* when the flag is set the call clears the flag and rebuilds, and raises
\* nothing.
C6_OtherResultFatalUnlessResized ==
    [][(In("drawFrame", "branch") /\ CpuStep /\ Top.result \in OtherResults)
          => IF mFramebufferResized
             THEN /\ exit' = "running"
                  /\ ~mFramebufferResized'
                  /\ stack'[Len(stack')].fn = "recreateSwapChain"
             ELSE exit' = "error" /\ thrownBy' = "acquireNextImageKHR"]_vars
C6_Witness ==
    In("drawFrame", "branch") /\ Top.result = "Timeout" /\ mFramebufferResized

\* C7: the frame index stays in [0, maxFramesInFlight); it changes only at
\* the end of a call that submitted and presented, to (current + 1) mod M,
\* and nothing that runs during a rebuild changes it.
C7_FrameIndexAdvance ==
    [][/\ mCurrentFrame \in Slots
       /\ mCurrentFrame' # mCurrentFrame =>
            /\ In("drawFrame", "advance")
            /\ Top.submits = 1
            /\ mCurrentFrame' = (mCurrentFrame + 1) % maxFramesInFlight
            /\ \A f \in Frames : f.fn # "recreateSwapChain"
      ]_vars

\* C8: every wait on a slot's fence returns: a fence waited on is signaled, or
\* the submission that signals it is in the queue, and the wait ends (the CPU
\* is, again and again, not waiting: no wait lasts forever); a wait on a slot
\* with no submission since its fence was last seen signaled (the first wait
\* on a slot among them) finds the fence signaled.
Waiting == In("drawFrame", "waitForFences")
C8_FenceWaitReturns ==
    /\ [](Waiting =>
            \/ inFlightFences[mCurrentFrame] = "signaled"
            \/ \E i \in 1 .. Len(queue) : queue[i].slot = mCurrentFrame)
    /\ []((Waiting /\ unobserved[mCurrentFrame] = 0) =>
            inFlightFences[mCurrentFrame] = "signaled")
    /\ []<>(~Waiting)
\* the CPU waits on a fence that a submission in flight has yet to signal
C8_Witness == Waiting /\ inFlightFences[mCurrentFrame] = "unsignaled"

\* C9: a rebuild is past its size loop (waits for the device, destroys,
\* builds) only with a last-read size that is nonzero in both dimensions.
C9_NoRebuildAtZeroSize ==
    \A f \in Frames :
        (f.fn = "recreateSwapChain" /\ f.pc # "loop") =>
            (f.width # 0 /\ f.height # 0)
\* a rebuild that has read a size of zero width and nonzero height, and is
\* still in its loop
C9_Witness ==
    \E f \in Frames :
        f.fn = "recreateSwapChain" /\ f.pc = "loop" /\ f.width = 0 /\ f.height # 0

\* the chain and all that is built on it exist: no build or cleanup is under way
Complete ==
    \A m \in {"chain", "imageViews", "renderPass", "pipeline", "framebuffers",
              "commandBuffers"} : swapchain[m] # NoObj

\* C10: whenever the chain and its dependents are complete, the recorded
\* format and extent (used by the views, render pass, pipeline, framebuffers
\* and command buffers) are the ones the chain was created with.
C10_RecordedMatchesChain ==
    Complete =>
        /\ swapchain.format = swapchain.chain.format
        /\ swapchain.extent = swapchain.chain.extent
        /\ swapchain.framebuffers.extent = swapchain.chain.extent
        /\ swapchain.commandBuffers.extent = swapchain.chain.extent
        /\ swapchain.imageViews.format = swapchain.chain.format

\* C11: whenever the chain and its dependents are complete (after the initial
\* build and after every rebuild that returns), there are as many image views,
\* framebuffers and command buffers as the chain has images; and the image
\* index a frame submits with selects a framebuffer and a command buffer of
\* the complete, current set.
C11_OnePerImage ==
    /\ Complete =>
          /\ swapchain.imageViews.count = swapchain.chain.images
          /\ swapchain.framebuffers.count = swapchain.chain.images
          /\ swapchain.commandBuffers.count = swapchain.chain.images
    /\ In("drawFrame", "submit") =>
          /\ Complete
          /\ Top.image \in 0 .. (swapchain.framebuffers.count - 1)
          /\ Top.image \in 0 .. (swapchain.commandBuffers.count - 1)
\* a frame is about to submit with the last image of a chain that a rebuild
\* built for a window size other than the initial one
C11_Witness ==
    /\ In("drawFrame", "submit")
    /\ swapchain.chain.extent # InitialWindow
    /\ Top.image = swapchain.chain.images - 1

\* a step destroys member m
Destroys(m) == swapchain[m] # NoObj /\ swapchain'[m] = NoObj
\* a member of order is destroyed only when all the members before it are gone
InOrder(order) ==
    \A i, j \in 1 .. Len(order) :
        (i < j /\ Destroys(order[j])) => swapchain[order[i]] = NoObj
\* the rebuild's cleanupSwapChain() returns with this step
CleanupReturns ==
    /\ In("recreateSwapChain", "cleanup")
    /\ CpuStep
    /\ stack'[Len(stack')].pc # "cleanup"
\* the members that hold handles (the format and the extent are plain values)
Handles == DOMAIN swapchain \ {"format", "extent"}
ClaimedOrder ==
    << "commandBuffers", "framebuffers", "pipeline", "renderPass",
       "imageViews", "chain" >>
SourceOrder ==
    << "framebuffers", "commandBuffers", "pipeline", "renderPass",
       "imageViews", "chain" >>

C13_PoolsKept ==
    [][/\ swapchain'.commandPool = swapchain.commandPool
       /\ swapchain'.descriptorPool = swapchain.descriptorPool]_vars

\* C13 amended: the command pool is never destroyed nor recreated; the
\* descriptor pool of vk_depth_buffering is: cleanupSwapChain destroys it,
\* after the chain, and the build creates a new one before it allocates the
\* command buffers, so every rebuild that returns holds a new descriptor
\* pool.  The other chapters have no descriptor pool.
C13_OnlyCommandPoolKept ==
    [][/\ swapchain.commandPool # NoObj
       /\ swapchain'.commandPool = swapchain.commandPool
       /\ chapter # "depth" => swapchain'.descriptorPool = NoObj
       /\ (chapter = "depth" /\ CleanupReturns) =>
             /\ Destroys("descriptorPool")
             /\ swapchain.chain = NoObj
       /\ (chapter = "depth" /\ Building) =>
             /\ swapchain.descriptorPool = NoObj
             /\ swapchain'.commandBuffers # NoObj =>
                   swapchain'.descriptorPool # NoObj
      ]_vars
\* vk_depth_buffering has destroyed its descriptor pool and is about to build
C13_Witness ==
    /\ chapter = "depth"
    /\ In("recreateSwapChain", "create")
    /\ swapchain.descriptorPool = NoObj
    /\ swapchain.commandPool # NoObj

\* the program can take a step without a further move of the window system
CanProceed == ENABLED (Cpu \/ GpuExecute)

\* C14: once the close request is set the run comes to its end without
\* waiting for anything more from the window: in every state where the
\* request is set, run has ended or the program can take a step.
C14_CloseTerminates ==
    shouldClose => (exit # "running" \/ CanProceed)

\* C15: the executable exits with code 1 when an error has propagated out of
\* run, and with code 0 when run returned after the window was closed.
C15_ExitCode ==
    /\ exit = "error" => main(chapter, exit) = 1
    /\ exit = "closed" => main(chapter, exit) = 0

\* a chooser has been called with these arguments and has returned
Chose(fn) == call.fn = fn /\ returned.done
Contains(list, x) == \E i \in 1 .. Len(list) : list[i] = x
PreferredFormat == [format |-> "B8G8R8A8Unorm", colorSpace |-> "SrgbNonlinear"]

\* C16: given a non-empty list of surface formats, the chosen format is the
\* BGRA8-unorm / SRGB-nonlinear pair whenever the list contains it, at
\* whatever position, and the first element of the list otherwise.
C16_PreferredFormatOrFirst ==
    Chose("chooseSwapSurfaceFormat") =>
        IF Contains(call.formats, PreferredFormat)
        THEN returned.value = PreferredFormat
        ELSE returned.value = call.formats[1]
\* the pair is the last of several formats, behind one that shares its format
C16_Witness ==
    /\ Chose("chooseSwapSurfaceFormat")
    /\ Len(call.formats) = MaxListLen
    /\ call.formats[1].format = "B8G8R8A8Unorm"
    /\ call.formats[1] # PreferredFormat
    /\ call.formats[MaxListLen] = PreferredFormat
    /\ returned.value = PreferredFormat

\* C17: the chosen present mode is mailbox whenever the list contains
\* mailbox, and FIFO in every other case, whatever else the list contains
\* and in whatever order.
C17_MailboxElseFifo ==
    Chose("chooseSwapPresentMode") =>
        returned.value =
            IF Contains(call.presentModes, "Mailbox") THEN "Mailbox" ELSE "Fifo"
\* mailbox is chosen from behind the other modes
C17_Witness ==
    /\ Chose("chooseSwapPresentMode")
    /\ Len(call.presentModes) = MaxListLen
    /\ call.presentModes[1] = "Fifo"
    /\ call.presentModes[MaxListLen] = "Mailbox"
    /\ returned.value = "Mailbox"

\* C18, as stated: given a list of present modes without mailbox, the
\* chosen mode is the first mode of the list.
C18_FirstModeChosen ==
    (/\ Chose("chooseSwapPresentMode")
     /\ call.presentModes # << >>
     /\ ~Contains(call.presentModes, "Mailbox")) =>
        returned.value = call.presentModes[1]
\* C18: given a list of present modes without mailbox, the chosen mode is
\* FIFO, whichever mode the list begins with and whether or not the list
\* names FIFO at all.
C18_FifoWhateverIsFirst ==
    (/\ Chose("chooseSwapPresentMode")
     /\ ~Contains(call.presentModes, "Mailbox")) =>
        /\ returned.value = "Fifo"
        /\ (call.presentModes # << >> /\ call.presentModes[1] # "Fifo") =>
                returned.value # call.presentModes[1]
\* a list without mailbox that begins with another mode than FIFO
C18_Witness ==
    /\ Chose("chooseSwapPresentMode")
    /\ ~Contains(call.presentModes, "Mailbox")
    /\ Len(call.presentModes) > 1
    /\ call.presentModes[1] = "Immediate"
    /\ returned.value = "Fifo"

Clamp(lo, hi, x) == IF x < lo THEN lo ELSE IF x > hi THEN hi ELSE x
Within(lo, hi, x) == lo <= x /\ x <= hi

\* C19: when the current extent of the surface is the undefined value, the
\* chosen extent is the window size clamped, width and height each, into
\* the minimum and maximum extents, and so lies within them: with minimum
\* (100,100) and maximum (4000,4000) a window of (50,50) gives (100,100) and
\* a window of (5000,3000) gives (4000,3000).  Otherwise the chosen extent
\* is the current extent as it is.
C19_ExtentClampedOrCurrent ==
    Chose("chooseSwapExtent") =>
        LET c  == call.capabilities
            lo == c.minImageExtent
            hi == c.maxImageExtent
            e  == returned.value
        IN  IF c.currentExtent = Extent(UndefinedExtent, UndefinedExtent)
            THEN /\ e.width  = Clamp(lo.width, hi.width, call.window.width)
                 /\ e.height = Clamp(lo.height, hi.height, call.window.height)
                 /\ Within(lo.width, hi.width, e.width)
                 /\ Within(lo.height, hi.height, e.height)
                 /\ (lo = Extent(100, 100) /\ hi = Extent(4000, 4000)) =>
                        /\ call.window = Extent(50, 50) => e = Extent(100, 100)
                        /\ call.window = Extent(5000, 3000) =>
                               e = Extent(4000, 3000)
            ELSE e = c.currentExtent
\* the window is wider than the maximum and its height is within the bounds
C19_Witness ==
    /\ Chose("chooseSwapExtent")
    /\ call.capabilities.currentExtent.width = UndefinedExtent
    /\ call.capabilities.minImageExtent = Extent(100, 100)
    /\ call.capabilities.maxImageExtent = Extent(4000, 4000)
    /\ call.window = Extent(5000, 3000)
    /\ returned.value = Extent(4000, 3000)

\* C20: the image count asked for is minImageCount + 1, except that it is
\* maxImageCount when maxImageCount is not zero and minImageCount + 1 is
\* above it; a maxImageCount of zero is no bound (minimum 2 and maximum 0
\* give 3, minimum 2 and maximum 2 give 2).
C20_ImageCount ==
    Chose("imageCount") =>
        LET lo == call.capabilities.minImageCount
            hi == call.capabilities.maxImageCount
        IN  /\ returned.value =
                  IF hi # 0 /\ lo + 1 > hi THEN hi ELSE lo + 1
            /\ hi = 0 => returned.value > lo
            /\ (lo = 2 /\ hi = 0) => returned.value = 3
            /\ (lo = 2 /\ hi = 2) => returned.value = 2
\* the maximum is met by the minimum already
C20_Witness ==
    /\ Chose("imageCount")
    /\ call.capabilities.minImageCount = 2
    /\ call.capabilities.maxImageCount = 2
    /\ returned.value = 2

\* the members of the dependent set the claim about the idle wait names
DependentSet ==
    {"framebuffers", "commandBuffers", "pipeline", "renderPass", "imageViews",
     "chain"}

\* C21: within a rebuild the wait for the idle device has returned before
\* the first object of the old set is destroyed: a framebuffer, command
\* buffer, pipeline, render pass, image view or chain is destroyed only by
\* the rebuild's cleanup, and while it runs no submitted frame is left to
\* execute.
C21_IdleBeforeDestroy ==
    [][/\ (\E m \in DependentSet : Destroys(m)) =>
            /\ In("recreateSwapChain", "cleanup")
            /\ queue = << >>
       /\ In("recreateSwapChain", "cleanup")' => queue' = << >>
      ]_vars
\* the cleanup has begun after frames were submitted whose fences the CPU
\* never waited for: only the idle wait stood between them and the cleanup
C21_Witness ==
    /\ In("recreateSwapChain", "cleanup")
    /\ swapchain.framebuffers = NoObj
    /\ swapchain.commandBuffers # NoObj
    /\ \A i \in Slots : unobserved[i] > 0

\* the frame that called the function now running
Caller == stack[Len(stack) - 1]
\* glfwWaitEvents has been called and no event has arrived for it
BlockedInEventWait ==
    /\ Running /\ Top.fn = "glfwWaitEvents"
    /\ ~Top.handled /\ events = << >>

\* C22: once rebuild has read a framebuffer size that is nonzero in both
\* dimensions it goes on to the idle wait without a further window event:
\* it is never blocked in the event wait with such a size read.
C22_NoEventWaitAtNonzeroSize ==
    BlockedInEventWait => (Caller.width = 0 \/ Caller.height = 0)

\* C23: on every path by which the run ends, by a close or by an error, the
\* device is idle when the run ends and the resources are released: nothing
\* submitted is left to execute.
C23_IdleWhenRunEnds ==
    exit # "running" => queue = << >>

\* C24: the acquire is given the timeout of the fence wait, a timeout that
\* does not expire, and so never returns a timeout result to drawFrame.
C24_AcquireNeverTimesOut ==
    /\ In("drawFrame", "acquire") => acquireTimeout = fenceTimeout
    /\ In("drawFrame", "branch") => Top.result # "Timeout"

C26_NoSuitableDeviceFails ==
    (/\ Chose("pickPhysicalDevice")
     /\ call.suitable # << >>
     /\ \A i \in 1 .. Len(call.suitable) : ~call.suitable[i]) =>
        /\ returned.value.threw
        /\ ~(~returned.value.threw /\ returned.value.device = 0)

\* C27: when drawFrame writes the uniform buffer of the acquired image and
\* submits the command buffer of that image, no earlier submission that used
\* the same image is still waiting to be executed (and so none is left that
\* the CPU has not observed complete).
C27_ImageNotInFlight ==
    (In("drawFrame", "submit") /\ hasUniformBuffers(chapter)) =>
        \A k \in 1 .. Len(queue) : queue[k].image # Top.image

\* C28: a slot's render-finished semaphore is handed to a submission only
\* when the signal of the slot's previous submission has been consumed by
\* the present that waits on it.
C28_SignalConsumedBeforeReuse ==
    [][(In("drawFrame", "submit") /\ CpuStep) =>
          renderFinished[mCurrentFrame] = "unsignaled"]_vars

\* C29: while a rebuild is in progress no frame iteration runs: no drawFrame
\* is on the call stack above a recreateSwapChain.
C29_NoFrameDuringRebuild ==
    \A i, j \in 1 .. Len(stack) :
        (i < j /\ stack[i].fn = "recreateSwapChain") => stack[j].fn # "drawFrame"

\* a framebuffer-size event is being dispatched by this step
ResizeDispatched ==
    /\ InEvents /\ CpuStep
    /\ events # << >> /\ Head(events) = "resize"

\* C30: a resize notification is never lost.  Its dispatch sets the flag,
\* also inside the event wait of a rebuild; the flag is cleared only by the
\* branch of a drawFrame that goes on to call the rebuild; and no drawFrame
\* submits while the flag is set.
C30_ResizeNeverLost ==
    [][/\ ResizeDispatched => mFramebufferResized'
       /\ (mFramebufferResized /\ ~mFramebufferResized') =>
             /\ In("drawFrame", "branch")
             /\ RebuildInvoked'
       /\ (In("drawFrame", "submit") /\ CpuStep) => ~mFramebufferResized
       /\ (mFramebufferResized /\ In("drawFrame", "branch") /\ CpuStep) =>
             /\ ~mFramebufferResized'
             /\ RebuildInvoked'
      ]_vars
\* the notification arrived during the event wait of a rebuild, and the
\* rebuild has gone on with the flag set
C30_Witness ==
    /\ Running /\ Top.fn = "recreateSwapChain" /\ Top.pc # "loop"
    /\ mFramebufferResized

====
